---- MODULE Spec2Model ----
(***************************************************************************)
(* WARL0K MQTT demo: the Streamlit clients (app/mqtt/client_dash*.py), the *)
(* key-file store they share with the server, the server's on_message     *)
(* (app/mqtt/server_dash.py, server_dash_log.py) and the broker topics     *)
(* between them; and the combined dashboard demo_warl0k_dash_mqtt_all.py,  *)
(* which runs a client and a server inside one Streamlit session.  Also   *)
(* the key-file functions of app/mqtt/client_key_manager.py, the scoring   *)
(* functions of app/model.py, and the session simulators demo_dash3.py and *)
(* demo_dash5.py, each under a specification of its own.                   *)
(*                                                                         *)
(* Bytes are modelled by their structure.  A payload is the record         *)
(* [sid, nonce, ct] of the three slices payload[:36], payload[36:48] and   *)
(* payload[48:]; FrameLen gives its length in bytes.  AES-GCM is the usual *)
(* symbolic AEAD: a ciphertext remembers the key, nonce and plaintext it   *)
(* was sealed with and opens only under the same key and nonce, unflipped. *)
(* Random draws (uuid4, generate_key, os.urandom(12)) are fresh: a draw    *)
(* never repeats an earlier one.  A drawn nonce is named after the event  *)
(* that draws it: the publisher's n-th frame, or the reply to a request.  *)
(***************************************************************************)
EXTENDS Integers, Sequences, FiniteSets, TLC

\* ---------------------------------------------------------------- bounds
MaxSessions == 2    \* uuid4 values the client draws (session creations)
MaxPublish  == 2    \* frames published by the client and by other parties
MaxChain    == 2    \* replies the combined demo's server makes to its own replies
TruncLen    == 10   \* bytes of the forged payload that is cut short
SecretLen   == 2    \* symbols of a challenge secret (the dashboards draw 16)
MaxRecords  == 3    \* sessions simulated in one dashboard
MaxLog      == 3    \* entries of the logging client's session log

\* ------------------------------------------------------ program constants
SidLen     == 36    \* payload[:36]
NonceLen   == 12    \* payload[36:48], os.urandom(12)
MinPayload == 48    \* if len(payload) < 48: return
TagLen     == 16    \* AES-GCM tag appended by AESGCM.encrypt
KeyLen     == 16    \* generate_key(bit_length=128)
AlphabetSize    == 62   \* len(vocab)
TamperedAbove   == 600  \* if anomaly > 0.6, in thousandths
SuspiciousAbove == 300  \* elif anomaly > 0.3, in thousandths

TOPIC_SERVER == "warl0k/_server"     \* server TOPIC_SUB, client TOPIC_PUB
TOPIC_CLIENT == "warl0k/_client"     \* server TOPIC_PUB, client TOPIC_SUB
DEMO_TOPIC_SUB == "warl0k/server2"   \* demo_warl0k_dash_mqtt_all.py TOPIC_SUB
DEMO_TOPIC_PUB == "warl0k/client2"   \* demo_warl0k_dash_mqtt_all.py TOPIC_PUB
KILL_SERVER  == "KILL_SERVER"

\* ------------------------------------------------------------ byte values
\* str(uuid.uuid4()): 36 ASCII characters, never repeated.
Uuid(i) == "uuid-" \o ToString(i)
Uuids == {Uuid(i) : i \in 1..MaxSessions}
OtherUuid   == "uuid-other"      \* the session id of another client instance
BadSid      == "not-utf8"        \* 36 bytes that bytes.decode() rejects
TruncSid    == "uuid-trunc"      \* TruncLen ASCII bytes, a payload cut short

\* AESGCM.generate_key(bit_length=128): the i-th draw, KeyLen random bytes.
KeyBytes(i) == [j \in 1..KeyLen |-> (i * 37 + j * 11) % 256]
OtherKey == KeyBytes(0)        \* the key of the other client instance
\* os.urandom(12) drawn for the i-th frame the client or another party
\* publishes; 0 stands for an absent nonce slice.
Nonce(i) == i
\* ReplyNonce, were the server to seal its reply with the request's nonce.
ReplyNonce_Echo(n) == n
\* os.urandom(12) drawn by the server for its reply to the request sealed
\* with nonce n.
ReplyNonce(n) == MaxPublish + n

\* bytes.hex(): two hexadecimal digits per byte, high nibble first.
Hex(bytes) ==
  [j \in 1..(2 * Len(bytes)) |->
     IF j % 2 = 1 THEN bytes[(j + 1) \div 2] \div 16 ELSE bytes[j \div 2] % 16]
\* bytes.fromhex(): inverse of Hex on even-length digit strings.
FromHex(digits) ==
  [j \in 1..(Len(digits) \div 2) |-> digits[2 * j - 1] * 16 + digits[2 * j]]

\* AESGCM(key).encrypt(nonce, pt, None): ciphertext of len(pt) + 16 bytes.
Seal(key, nonce, pt) ==
  [kind |-> "sealed", k |-> key, n |-> nonce, pt |-> pt, flip |-> FALSE,
   len |-> Len(pt) + TagLen]
\* len arbitrary bytes that were not produced by AESGCM.encrypt.
Junk(len) ==
  [kind |-> "junk", k |-> <<>>, n |-> 0, pt |-> "", flip |-> FALSE, len |-> len]
\* AESGCM(key).decrypt(nonce, ct, None) returns (does not raise InvalidTag).
Opens(key, nonce, ct) ==
  ct.kind = "sealed" /\ ~ct.flip /\ ct.k = key /\ ct.n = nonce

SidBytes(s) == IF s = "" THEN 0 ELSE IF s = TruncSid THEN TruncLen ELSE SidLen
NonceBytes(n) == IF n = 0 THEN 0 ELSE NonceLen
\* len(payload)
FrameLen(f) == SidBytes(f.sid) + NonceBytes(f.nonce) + f.ct.len
\* session_id.encode() + nonce + ct
Frame(sid, nonce, ct) == [sid |-> sid, nonce |-> nonce, ct |-> ct]
\* payload[:36].decode() returns (does not raise UnicodeDecodeError).
Decodable(s) == s # BadSid

VARIABLES
  prog,        \* which script runs: client_dash, client_dash_all_data,
               \* client_dash_all_data_log, demo_warl0k_dash_mqtt_all,
               \* client_key_manager, demo_dash3, demo_dash5
  keyStore,    \* KEY_DIR: session id -> hex text of <id>.key
  toServer,    \* frames published on the topic the server is subscribed to
               \* (warl0k/_server; warl0k/client2 in the demo), not yet delivered
  toClient,    \* frames published on the topic the client is subscribed to
               \* (warl0k/_client; warl0k/server2 in the demo), not yet delivered
  srv,         \* the server's last on_message: payload, log lines, publishes
  ss,          \* st.session_state: session_id, ephemeral_key, mqtt_payload
  mqtt_state,  \* mqtt_state["payload"] of the current script run (<<>> = None)
  inject_noise,\* the sidebar checkbox as read by the script run in progress
  fg,          \* the script run: "none" (never run), "running" (past the
               \* button handlers, before the payload transfer), "idle"
  display,     \* the response area rendered by the last completed run
  killed,      \* session ids whose KILL_SERVER the server has decrypted
               \* (the "Decrypted Message: KILL_SERVER" lines of its log)
  srvFailures, \* the failure lines of the server's log so far, each with the
               \* first 36 bytes of the payload it was written for
  stopped,     \* session ids the client's Stop Service has ended
  demo,        \* demo_warl0k_dash_mqtt_all: its st.session_state entries, its
               \* two MQTT threads, what its last run showed, and which
               \* session-state entries its on_message callbacks have used
  km,          \* client_key_manager.py used on KEY_DIR: the outcome of the last
               \* load_key call, and for each id the key last passed to save_key
  sessions,    \* st.session_state.sessions of demo_dash3.py / demo_dash5.py
  history,     \* st.session_state.history of the same: the rows of the frame
  session_log, \* st.session_state.session_log of client_dash_all_data.py
  call,        \* the last direct call of a function: its arguments and outcome
  nextUuid,    \* uuid4 values drawn so far
  nPublished   \* frames published so far by the client and other parties

vars == <<prog, keyStore, toServer, toClient, srv, ss, mqtt_state, inject_noise,
          fg, display, killed, srvFailures, stopped, demo, km, sessions,
          history, session_log, call, nextUuid, nPublished>>

Programs == {"client_dash", "client_dash_all_data", "client_dash_all_data_log"}
Demo == "demo_warl0k_dash_mqtt_all"
\* st.text_input("Message to Encrypt & Send", value="AUTH_REQUEST")
Messages == {"AUTH_REQUEST", KILL_SERVER}
None == <<>>

\* ------------------------------------------------------------- key files
\* os.path.exists(key_path) in load_key
KeyExists(session_id) == session_id \in DOMAIN keyStore
\* load_key, were it to return the text of the file as it is.
load_key_Raw(session_id) == keyStore[session_id]
\* load_key(session_id), when the file exists
load_key(session_id) == FromHex(keyStore[session_id])
\* save_key, were it to write the key bytes as they are instead of their hex.
save_key_Binary(store, session_id, key_bytes) ==
  [s \in DOMAIN store \cup {session_id} |->
     IF s = session_id THEN key_bytes ELSE store[s]]
\* save_key(session_id, key_bytes): open(..., "w") replaces the file
save_key(store, session_id, key_bytes) ==
  [s \in DOMAIN store \cup {session_id} |->
     IF s = session_id THEN Hex(key_bytes) ELSE store[s]]

\* ------------------------------------------------------------ the server
\* Rejected, were the server to publish an unencrypted error notice on failure.
Rejected_ErrorNotice(lines) ==
  [lines |-> lines,
   published |-> <<[topic |-> TOPIC_CLIENT, frame |-> Frame("", 0, Junk(TruncLen))]>>,
   decrypted |-> None]
\* What one call of on_message leaves behind: the log lines it wrote, the
\* frames it published, and the plaintext it decrypted (None if it did not).
\* A call that returns early or lands in "except Exception": no publish.
Rejected(lines) == [lines |-> lines, published |-> <<>>, decrypted |-> None]
\* Reply, were the server to echo the plaintext without the "ACK:" prefix.
Reply_NoPrefix(session_id, key, decrypted, nonce_out) ==
  [lines |-> <<"received", "session", "nonce", "ciphertext", "decrypted", "sent">>,
   published |-> <<[topic |-> TOPIC_CLIENT,
                    frame |-> Frame(session_id, nonce_out,
                                    Seal(key, nonce_out, decrypted))]>>,
   decrypted |-> <<decrypted>>]
\* The "# Reply" block: response = f"ACK:{decrypted}", sealed under the same
\* key with nonce_out and published on TOPIC_PUB behind the session id.
Reply(session_id, key, decrypted, nonce_out) ==
  LET response == "ACK:" \o decrypted
      ct_out   == Seal(key, nonce_out, response)
      response_payload == Frame(session_id, nonce_out, ct_out)
  IN [lines |-> <<"received", "session", "nonce", "ciphertext", "decrypted",
                  "sent">>,
      published |-> <<[topic |-> TOPIC_CLIENT, frame |-> response_payload]>>,
      decrypted |-> <<decrypted>>]

\* on_message, were the server to close a session after a failed tag check.
on_message_CloseOnFailure(payload, nonce_out) ==
  IF FrameLen(payload) < MinPayload
  THEN Rejected(<<"received", "too short">>)
  ELSE IF ~Decodable(payload.sid)
  THEN Rejected(<<"received", "failed: UnicodeDecodeError">>)
  ELSE IF ~KeyExists(payload.sid)
  THEN Rejected(<<"received", "session", "nonce", "ciphertext",
                  "failed: FileNotFoundError">>)
  ELSE IF [line |-> "failed: InvalidTag", sid |-> payload.sid] \in srvFailures
  THEN Rejected(<<"received", "session", "failed: SessionClosed">>)
  ELSE IF ~Opens(load_key(payload.sid), payload.nonce, payload.ct)
  THEN Rejected(<<"received", "session", "nonce", "ciphertext",
                  "failed: InvalidTag">>)
  ELSE Reply(payload.sid, load_key(payload.sid), payload.ct.pt, nonce_out)
\* on_message(client, userdata, msg) for msg.payload = payload, with
\* os.urandom(12) = nonce_out.  The log lines "session", "nonce", "ciphertext"
\* print the three slices, "failed: E" is the except branch for exception E.
on_message(payload, nonce_out) ==
  IF FrameLen(payload) < MinPayload
  THEN Rejected(<<"received", "too short">>)
  ELSE IF ~Decodable(payload.sid)
  THEN Rejected(<<"received", "failed: UnicodeDecodeError">>)
  ELSE IF ~KeyExists(payload.sid)
  THEN Rejected(<<"received", "session", "nonce", "ciphertext",
                  "failed: FileNotFoundError">>)
  ELSE IF ~Opens(load_key(payload.sid), payload.nonce, payload.ct)
  THEN Rejected(<<"received", "session", "nonce", "ciphertext",
                  "failed: InvalidTag">>)
  ELSE Reply(payload.sid, load_key(payload.sid), payload.ct.pt, nonce_out)

\* The last log line of a call, when it is a failure line.
Last(lines) == lines[Len(lines)]
IsFailure(lines) == Last(lines) # "sent"

PublishedOn(topic, published) ==
  {published[i].frame : i \in {j \in DOMAIN published : published[j].topic = topic}}

\* The server's paho loop calls on_message for a payload that arrived on
\* warl0k/_server: its publishes go to the broker, its log lines to the log.
ServerReceives(payload) ==
  LET r == on_message(payload, ReplyNonce(payload.nonce)) IN
    /\ toClient' = toClient \cup PublishedOn(TOPIC_CLIENT, r.published)
    /\ srv' = [payload |-> <<payload>>, lines |-> r.lines,
               published |-> r.published]
    /\ killed' = IF r.decrypted = <<KILL_SERVER>>
                 THEN killed \cup {payload.sid} ELSE killed
    /\ srvFailures' = IF IsFailure(r.lines)
                      THEN srvFailures \cup {[line |-> Last(r.lines),
                                              sid |-> payload.sid]}
                      ELSE srvFailures

\* The broker delivers a frame the client has published on warl0k/_server.
ServerOnMessage ==
  \E payload \in toServer :
    /\ prog \in Programs
    /\ toServer' = toServer \ {payload}
    /\ ServerReceives(payload)
    /\ UNCHANGED <<km, sessions, history, session_log, call, prog, keyStore, ss, mqtt_state, inject_noise, fg, display,
                   stopped, demo, nextUuid, nPublished>>

\* ------------------------------------------------------------ the client
HasStop == prog = "client_dash_all_data_log"       \* the Stop Service button
HasNoise == prog # "client_dash"                   \* the tamper checkbox

\* encrypt_payload, were it to seal under a nonce other than the one returned.
encrypt_payload_OtherNonce(key, nonce, message) == Seal(key, nonce + 1, message)
\* encrypt_payload(key, message) with os.urandom(12) = nonce: the ciphertext
\* returned next to the nonce
encrypt_payload(key, nonce, message) == Seal(key, nonce, message)
\* ClientFrame, were the client to publish nonce + ct without its session id.
ClientFrame_NoSessionId(state, nonce, message) ==
  Frame("", nonce, encrypt_payload(state.ephemeral_key, nonce, message))
\* payload = st.session_state.session_id.encode() + nonce + ct
ClientFrame(state, nonce, message) ==
  Frame(state.session_id, nonce,
        encrypt_payload(state.ephemeral_key, nonce, message))

\* tampered[0] ^= 0xFF on a copy of the ciphertext
FlipFirstByte(ct) == [ct EXCEPT !.flip = ~@]
\* decrypt_payload(key, nonce, ciphertext, inject_error): the text shown and,
\* in client_dash_all_data, the status logged.  Never raises.
decrypt_payload(key, nonce, ciphertext, inject_error) ==
  IF inject_error
  THEN IF ciphertext.len = 0                        \* IndexError, caught
       THEN [text |-> "[Decryption failed]", status |-> "Decryption failed"]
       ELSE IF Opens(key, nonce, FlipFirstByte(ciphertext))
       THEN [text |-> ciphertext.pt, status |-> "Decryption failed"]
       ELSE [text |-> "[Decryption failed]", status |-> "Decryption failed"]
  ELSE IF Opens(key, nonce, ciphertext)
       THEN [text |-> ciphertext.pt, status |-> "Success"]
       ELSE [text |-> "[Decryption failed]", status |-> "Decryption failed"]

\* if "session_id" not in st.session_state: ... if "ephemeral_key" not in ...:
\* the session state after the initialisation block, drawing uuid and key.
InitSession(state, uuid, key) ==
  [session_id    |-> IF state.session_id = "" THEN uuid ELSE state.session_id,
   ephemeral_key |-> IF state.ephemeral_key = <<>> THEN key
                     ELSE state.ephemeral_key,
   mqtt_payload  |-> state.mqtt_payload]
\* the key files after the initialisation block
InitSessionStore(state, store, uuid, key) ==
  IF state.ephemeral_key = <<>>
  THEN save_key(store, InitSession(state, uuid, key).session_id, key)
  ELSE store
\* st.session_state.clear()
Cleared == [session_id |-> "", ephemeral_key |-> <<>>, mqtt_payload |-> None]

\* One script run from the top to just before the payload transfer, with no
\* button pressed or with "Send Message" pressed.  Every run builds a new
\* module namespace: a new mqtt_state and a new paho client that fills it.
RunScript(button, message, noise) ==
  /\ prog \in Programs
  /\ button \in {"none", "send"}
  /\ LET fresh == ss.session_id = ""
           nonce == Nonce(nPublished + 1)
           uuid  == Uuid(nextUuid + 1)
           key   == KeyBytes(nextUuid + 1)
           state == InitSession(ss, uuid, key)
       IN /\ fresh => nextUuid < MaxSessions
          /\ nextUuid' = IF fresh THEN nextUuid + 1 ELSE nextUuid
          /\ keyStore' = InitSessionStore(ss, keyStore, uuid, key)
          /\ ss' = state
          /\ IF button = "send"
             THEN /\ nPublished < MaxPublish
                  /\ toServer' = toServer \cup {ClientFrame(state, nonce, message)}
                  /\ nPublished' = nPublished + 1
             ELSE UNCHANGED <<toServer, nPublished>>
  /\ mqtt_state' = None
  /\ inject_noise' = (HasNoise /\ noise)
  /\ fg' = "running"
  /\ UNCHANGED <<km, sessions, history, session_log, call, prog, toClient, srv, display, killed, srvFailures, stopped, demo>>

\* A script run with "Stop Service" pressed: the kill frame is published under
\* the current session, the session state is cleared and st.rerun() runs the
\* script again from the top, which draws a new session.
StopService(noise) ==
  /\ HasStop
  /\ nPublished < MaxPublish
  /\ LET fresh == ss.session_id = ""
           nonce_kill == Nonce(nPublished + 1)
           n1    == IF fresh THEN nextUuid + 1 ELSE nextUuid
           key1  == KeyBytes(nextUuid + 1)
           key2  == KeyBytes(n1 + 1)
           state == InitSession(ss, Uuid(nextUuid + 1), key1)
           store == InitSessionStore(ss, keyStore, Uuid(nextUuid + 1), key1)
           again == InitSession(Cleared, Uuid(n1 + 1), key2)
       IN /\ n1 + 1 <= MaxSessions
          /\ toServer' = toServer \cup {ClientFrame(state, nonce_kill, KILL_SERVER)}
          /\ nPublished' = nPublished + 1
          /\ stopped' = stopped \cup {state.session_id}
          /\ ss' = again
          /\ keyStore' = InitSessionStore(Cleared, store, Uuid(n1 + 1), key2)
          /\ nextUuid' = n1 + 1
  /\ mqtt_state' = None
  /\ inject_noise' = (HasNoise /\ noise)
  /\ fg' = "running"
  /\ UNCHANGED <<km, sessions, history, session_log, call, prog, toClient, srv, display, killed, srvFailures, demo>>

\* on_message of the current run's paho client: mqtt_state["payload"] = msg.payload
\* (the clients of earlier runs fill the mqtt_state of their own, finished runs)
ClientReceives(payload) == mqtt_state' = <<payload>>

\* The broker delivers a frame the server has published on warl0k/_client.
ClientOnMessage ==
  /\ prog \in Programs
  /\ fg # "none"
  /\ \E payload \in toClient :
       /\ toClient' = toClient \ {payload}
       /\ ClientReceives(payload)
  /\ UNCHANGED <<km, sessions, history, session_log, call, prog, keyStore, toServer, srv, ss, inject_noise, fg, display,
                 killed, srvFailures, stopped, demo, nextUuid, nPublished>>

\* Python truth value of a payload slot: None and b"" are false.
Truthy(slot) == slot # None /\ FrameLen(slot[1]) > 0

\* if mqtt_state["payload"] and st.session_state.mqtt_payload is None: ...
Transfer(state, slot) ==
  IF Truthy(slot) /\ state.mqtt_payload = None
  THEN [state EXCEPT !.mqtt_payload = slot]
  ELSE state

\* "Show Response if Available": what the run renders for the session state.
ShowResponse(state, noise) ==
  IF ~Truthy(state.mqtt_payload)
  THEN [out |-> "waiting", payload |-> None, text |-> ""]
  ELSE LET payload == state.mqtt_payload[1] IN
    IF ~Decodable(payload.sid)
    THEN [out |-> "exception", payload |-> <<payload>>, text |-> ""]
    ELSE IF payload.sid = state.session_id
    THEN [out |-> "decrypted", payload |-> <<payload>>,
          text |-> decrypt_payload(state.ephemeral_key, payload.nonce,
                                   payload.ct, noise).text]
    ELSE [out |-> "mismatch", payload |-> <<payload>>, text |-> ""]

\* client_dash_all_data.py logs each response it decrypts.  (The log of
\* client_dash_all_data_log.py, which its Send handler fills, is not followed.)
HasLog == prog = "client_dash_all_data"
\* The dict appended to st.session_state.session_log after decrypt_payload,
\* without its timestamp.
LogEntry(state, noise) ==
  LET payload == state.mqtt_payload[1] IN
    [session_id |-> state.session_id, noise_injected |-> noise,
     status |-> decrypt_payload(state.ephemeral_key, payload.nonce,
                                payload.ct, noise).status]

\* The rest of the script run: payload transfer and response display.
FinishRun ==
  /\ prog \in Programs
  /\ fg = "running"
  /\ ss' = Transfer(ss, mqtt_state)
  /\ display' = ShowResponse(ss', inject_noise)
  /\ session_log' = IF HasLog /\ display'.out = "decrypted"
                    THEN Append(session_log, LogEntry(ss', inject_noise))
                    ELSE session_log
  /\ inject_noise' = FALSE
  /\ fg' = "idle"
  /\ UNCHANGED <<km, sessions, history, call, prog, keyStore, toServer, toClient, srv, mqtt_state, killed,
                 srvFailures, stopped, demo, nextUuid, nPublished>>

\* ------------------------------------------------- others on the broker
\* Another client instance starts: its session key file appears in KEY_DIR.
OtherClientStart ==
  /\ prog \in Programs
  /\ ~KeyExists(OtherUuid)
  /\ keyStore' = save_key(keyStore, OtherUuid, OtherKey)
  /\ UNCHANGED <<km, sessions, history, session_log, call, prog, toServer, toClient, srv, ss, mqtt_state, inject_noise,
                 fg, display, killed, srvFailures, stopped, demo, nextUuid, nPublished>>

\* What the other client instance publishes under its own session:
\* session_id.encode() + nonce + ct for a message of its user.
OtherClientFrames ==
  IF KeyExists(OtherUuid)
  THEN {Frame(OtherUuid, Nonce(nPublished + 1),
              Seal(OtherKey, Nonce(nPublished + 1), message)) :
          message \in Messages}
  ELSE {}

\* Payloads that hold no ciphertext sealed under a session key: empty, cut
\* short, undecodable, or naming a session (one drawn so far, or the other
\* client's) with made-up bytes in place of the ciphertext: one byte short
\* of a tag, or as long as a sealed kill.
Forged ==
  {Frame("", 0, Junk(0)),
   Frame(TruncSid, 0, Junk(0)),
   Frame(BadSid, 1, Junk(TagLen))}
  \cup {Frame(s, 1, Junk(Len(KILL_SERVER) + TagLen)) :
          s \in {Uuid(i) : i \in 1..nextUuid} \cup {OtherUuid}}
  \cup {Frame(s, 1, Junk(TagLen - 1)) : s \in {Uuid(i) : i \in 1..nextUuid}}

\* Another party publishes on warl0k/_server (the other client a frame of its
\* session, anyone a forged payload) and the broker delivers it to the server.
ServerOnForeignMessage ==
  /\ prog \in Programs
  /\ nPublished < MaxPublish
  /\ \E payload \in OtherClientFrames \cup Forged : ServerReceives(payload)
  /\ nPublished' = nPublished + 1
  /\ UNCHANGED <<km, sessions, history, session_log, call, prog, keyStore, toServer, ss, mqtt_state, inject_noise, fg,
                 display, stopped, demo, nextUuid>>

\* Another party publishes a forged payload on warl0k/_client and the broker
\* delivers it to the client.
ClientOnForeignMessage ==
  /\ prog \in Programs
  /\ fg # "none"
  /\ nPublished < MaxPublish
  /\ \E payload \in Forged : ClientReceives(payload)
  /\ nPublished' = nPublished + 1
  /\ UNCHANGED <<km, sessions, history, session_log, call, prog, keyStore, toServer, toClient, srv, ss, inject_noise, fg,
                 display, killed, srvFailures, stopped, demo, nextUuid>>

\* ------------------------------------- demo_warl0k_dash_mqtt_all.py
\* The script starts two threads, start_client and start_server, each with
\* its own paho client; their callbacks and start_client itself use
\* st.session_state from outside the script thread.  Whether such a thread
\* reaches the session's state or an empty one of its own depends on the
\* Streamlit build: demo.ctx is TRUE when it reaches the session's state.
NoDemo ==
  [session_id |-> "", ephemeral_key |-> <<>>, response_queue |-> <<>>,
   mqtt_client |-> FALSE, threads_started |-> FALSE,
   client_up |-> FALSE, server_up |-> FALSE,
   shown |-> <<>>, touched |-> {}, ctx |-> FALSE]

\* encrypt_message(key, plaintext) with AESGCM.generate_key(...)[:12] = nonce
encrypt_message(key, nonce, plaintext) == Seal(key, nonce, plaintext)

\* One pass of the "Incoming Server Responses" loop for msg: msg[:36*2] is
\* decoded (72 bytes: the session id, the nonce and 24 bytes of ciphertext,
\* which decode or not as their random bytes fall), then the rest is
\* decrypted under the session key, whatever session id the frame names.
DemoShow(d, msg, decodes) ==
  IF ~Decodable(msg.sid) \/ (FrameLen(msg) > SidLen /\ ~decodes)
  THEN [out |-> "error", payload |-> msg, text |-> "UnicodeDecodeError"]
  ELSE IF Opens(d.ephemeral_key, msg.nonce, msg.ct)
  THEN [out |-> "code", payload |-> msg, text |-> msg.ct.pt]
  ELSE [out |-> "error", payload |-> msg, text |-> "InvalidTag"]

\* One script run: session state initialisation, thread start on the first
\* run, the Send button, and the response loop that drains the queue.
DemoRunScript(button, message) ==
  /\ prog = Demo
  /\ button \in {"none", "send"}
  /\ LET fresh == demo.session_id = ""
         d1 == [demo EXCEPT
                  !.ephemeral_key = IF @ = <<>> THEN KeyBytes(nextUuid + 1) ELSE @,
                  !.session_id = IF @ = "" THEN Uuid(nextUuid + 1) ELSE @,
                  !.threads_started = TRUE]
         nonce == Nonce(nPublished + 1)
         payload == Frame(d1.session_id, nonce,
                          encrypt_message(d1.ephemeral_key, nonce, message))
         sends == button = "send" /\ d1.mqtt_client
         queue == d1.response_queue
     IN /\ fresh => nextUuid < MaxSessions
        /\ nextUuid' = IF fresh THEN nextUuid + 1 ELSE nextUuid
        /\ sends => nPublished < MaxPublish
        /\ nPublished' = IF sends THEN nPublished + 1 ELSE nPublished
        \* published on TOPIC_PUB; the broker drops it unless the server's
        \* thread has subscribed
        /\ toServer' = IF sends /\ d1.server_up
                       THEN toServer \cup {payload} ELSE toServer
        /\ \E decodes \in [DOMAIN queue -> BOOLEAN] :
             demo' = [d1 EXCEPT
                        !.response_queue = <<>>,
                        !.shown = [i \in DOMAIN queue |->
                                     DemoShow(d1, queue[i], decodes[i])]]
  /\ UNCHANGED <<km, sessions, history, session_log, call, prog, keyStore, toClient, srv, ss, mqtt_state, inject_noise,
                 fg, display, killed, srvFailures, stopped>>

\* start_client: connect, subscribe(TOPIC_SUB), loop_start, then
\* st.session_state.mqtt_client = client from the thread.
DemoStartClient ==
  /\ prog = Demo
  /\ demo.threads_started /\ ~demo.client_up
  /\ demo' = [demo EXCEPT
                !.client_up = TRUE,
                !.mqtt_client = IF demo.ctx THEN TRUE ELSE @]
  /\ UNCHANGED <<km, sessions, history, session_log, call, prog, keyStore, toServer, toClient, srv, ss, mqtt_state,
                 inject_noise, fg, display, killed, srvFailures, stopped,
                 nextUuid, nPublished>>

\* start_server: connect, subscribe(TOPIC_PUB), loop_start.
DemoStartServer ==
  /\ prog = Demo
  /\ demo.threads_started /\ ~demo.server_up
  /\ demo' = [demo EXCEPT !.server_up = TRUE]
  /\ UNCHANGED <<km, sessions, history, session_log, call, prog, keyStore, toServer, toClient, srv, ss, mqtt_state,
                 inject_noise, fg, display, killed, srvFailures, stopped,
                 nextUuid, nPublished>>

\* server_on_message(client, userdata, msg): log lines, publishes and the
\* session-state entries it used, for msg.payload = payload and reply nonce
\* reply_nonce.  It decrypts under st.session_state.ephemeral_key whatever
\* session id the frame names, and replies through
\* st.session_state.mqtt_client on TOPIC_PUB.
server_on_message(payload, reply_nonce) ==
  IF ~Decodable(payload.sid)
  THEN [lines |-> <<"payload", "failed: UnicodeDecodeError">>,
        published |-> <<>>, touched |-> {}]
  ELSE IF ~demo.ctx
  THEN [lines |-> <<"payload", "failed: AttributeError">>,
        published |-> <<>>, touched |-> {}]
  ELSE IF ~Opens(demo.ephemeral_key, payload.nonce, payload.ct)
  THEN [lines |-> <<"payload", "failed: InvalidTag">>,
        published |-> <<>>, touched |-> {"ephemeral_key"}]
  ELSE LET key == demo.ephemeral_key
           reply_ct == encrypt_message(key, reply_nonce, "ACK:" \o payload.ct.pt)
           response == Frame(payload.sid, reply_nonce, reply_ct)
       IN [lines |-> <<"payload", "auth", "reply sent">>,
           published |-> IF demo.mqtt_client
                         THEN <<[topic |-> DEMO_TOPIC_PUB, frame |-> response]>>
                         ELSE <<>>,
           touched |-> {"ephemeral_key", "mqtt_client"}]

\* The demo server's paho loop calls server_on_message; what it publishes on
\* TOPIC_PUB comes back to it, the one subscriber of TOPIC_PUB.
DemoServerReceives(payload, inflight) ==
  LET r == server_on_message(payload, ReplyNonce(payload.nonce)) IN
    /\ toServer' = inflight \cup PublishedOn(DEMO_TOPIC_PUB, r.published)
    /\ toClient' = toClient \cup PublishedOn(DEMO_TOPIC_SUB, r.published)
    /\ srv' = [payload |-> <<payload>>, lines |-> r.lines,
               published |-> r.published]
    /\ demo' = [demo EXCEPT !.touched = @ \cup r.touched]

\* The broker delivers a frame of TOPIC_PUB published from this dashboard.
DemoServerOnMessage ==
  /\ prog = Demo
  /\ demo.server_up
  /\ \E payload \in toServer :
       /\ payload.nonce <= MaxChain * MaxPublish
       /\ DemoServerReceives(payload, toServer \ {payload})
  /\ UNCHANGED <<km, sessions, history, session_log, call, prog, keyStore, ss, mqtt_state, inject_noise, fg, display,
                 killed, srvFailures, stopped, nextUuid, nPublished>>

\* What another dashboard session on the same broker publishes on TOPIC_PUB.
DemoOtherFrames ==
  {Frame(OtherUuid, Nonce(nPublished + 1),
         Seal(OtherKey, Nonce(nPublished + 1), message)) : message \in Messages}

\* Another party publishes on TOPIC_PUB and the broker delivers it.
DemoServerOnForeignMessage ==
  /\ prog = Demo
  /\ demo.server_up
  /\ nPublished < MaxPublish
  /\ \E payload \in DemoOtherFrames \cup Forged :
       DemoServerReceives(payload, toServer)
  /\ nPublished' = nPublished + 1
  /\ UNCHANGED <<km, sessions, history, session_log, call, prog, keyStore, ss, mqtt_state, inject_noise, fg, display,
                 killed, srvFailures, stopped, nextUuid>>

\* client_on_message: st.session_state.response_queue.put_nowait(msg.payload),
\* called for a frame of TOPIC_SUB.  Nothing in the demo publishes on
\* TOPIC_SUB, so the frame is one another party has published there.
DemoClientOnForeignMessage ==
  /\ prog = Demo
  /\ demo.client_up
  /\ nPublished < MaxPublish
  /\ \E payload \in DemoOtherFrames \cup Forged :
       demo' = IF demo.ctx
               THEN [demo EXCEPT
                       !.response_queue = Append(@, payload),
                       !.touched = @ \cup {"response_queue"}]
               ELSE demo
  /\ nPublished' = nPublished + 1
  /\ UNCHANGED <<km, sessions, history, session_log, call, prog, keyStore, toServer, toClient, srv, ss, mqtt_state,
                 inject_noise, fg, display, killed, srvFailures, stopped,
                 nextUuid>>

\* --------------------------------------------- the codec, called directly
\* decrypt_message(key, nonce, ciphertext) of the combined demo: the text
\* returned, or the exception raised.
decrypt_message(key, nonce, ciphertext) ==
  IF Opens(key, nonce, ciphertext)
  THEN [text |-> ciphertext.pt, status |-> "Success"]
  ELSE [text |-> "", status |-> "raised InvalidTag"]

\* The ciphertext as it arrives: as sent, with its first byte inverted, or
\* with other bits changed.
Tampered(ct, how) ==
  CASE how = "none" -> ct
    [] how = "first byte" -> FlipFirstByte(ct)
    [] how = "other" -> Junk(ct.len)

\* encrypt under key, then decrypt under the same key what arrives, with the
\* functions of the script prog.
CodecCall(key, nonce, message, how, inject_error) ==
  /\ prog \in Programs \cup {Demo}
  /\ inject_error => HasNoise
  /\ LET ct == IF prog = Demo THEN encrypt_message(key, nonce, message)
               ELSE encrypt_payload(key, nonce, message)
         arrived == Tampered(ct, how)
         out == IF prog = Demo THEN decrypt_message(key, nonce, arrived)
                ELSE decrypt_payload(key, nonce, arrived, inject_error)
     IN call' = <<[fn |-> "codec", message |-> message, how |-> how,
                   inject_error |-> inject_error, nonce |-> nonce,
                   ciphertext |-> arrived, out |-> out]>>
  /\ UNCHANGED <<prog, keyStore, toServer, toClient, srv, ss, mqtt_state,
                 inject_noise, fg, display, killed, srvFailures, stopped, demo,
                 km, sessions, history, session_log, nextUuid, nPublished>>

\* ------------------------------- model.py, demo_dash3.py, demo_dash5.py
\* Symbols are vocab indices; a score is held in thousandths, as an integer.
Dash3 == "demo_dash3"
Dash5 == "demo_dash5"
Model == "model"
\* The vocab indices the model draws symbols from: both ends of vocab and
\* their neighbours.
Symbols == {0, 1, AlphabetSize - 1}
\* pattern_ratio values given to anomaly_score, as <<numerator, denominator>>
PatternRatios == {<<0, 1>>, <<1, 2>>, <<1, 1>>}
Abs(x) == IF x < 0 THEN -x ELSE x
\* round(num / den, 3) in thousandths: Python rounds a tie to the even digit
Round3(num, den) ==
  LET q == (1000 * num) \div den
      r == (1000 * num) % den
  IN IF 2 * r < den THEN q
     ELSE IF 2 * r > den THEN q + 1
     ELSE IF q % 2 = 0 THEN q ELSE q + 1

\* diff_positions = (original_tensor != noisy_tensor).nonzero(...)[0]
DiffPositions(original, noisy) ==
  {i \in DOMAIN original : original[i] # noisy[i]}

\* anomaly_score, were expected_pattern taken of the length of the sequence.
anomaly_score_ExpectedOfLength(original, noisy, pattern_ratio) ==
  LET diff_positions == DiffPositions(original, noisy)
      total_diff == Cardinality(diff_positions)
      patterned_count ==
        Cardinality({i \in diff_positions :
                       noisy[i] = (original[i] + 1) % Len(original)})
      expected_pattern ==
        (Len(original) * pattern_ratio[1]) \div pattern_ratio[2]
  IN IF total_diff = 0 THEN 0
     ELSE Round3(Abs(expected_pattern - patterned_count), total_diff)
\* anomaly_score(original_tensor, noisy_tensor, pattern_ratio) for two
\* one-dimensional tensors of one size
anomaly_score(original, noisy, pattern_ratio) ==
  LET diff_positions == DiffPositions(original, noisy)
      total_diff == Cardinality(diff_positions)
      patterned_count ==
        Cardinality({i \in diff_positions :
                       noisy[i] = (original[i] + 1) % Len(original)})
      expected_pattern ==
        (total_diff * pattern_ratio[1]) \div pattern_ratio[2]
  IN IF total_diff = 0 THEN 0
     ELSE Round3(Abs(expected_pattern - patterned_count), total_diff)

\* Drift, were it to count the positions that agree.
Drift_OfMatches(secret, regen) ==
  [num |-> Cardinality({i \in DOMAIN secret : secret[i] = regen[i]}),
   den |-> Len(secret)]
\* drift = sum(a != b for a, b in zip(secret, regen)) / len(secret), as the
\* fraction num / den
Drift(secret, regen) ==
  [num |-> Cardinality({i \in DOMAIN secret : secret[i] # regen[i]}),
   den |-> Len(secret)]

\* counts = Counter(s): how often each symbol of s occurs
Counter(s) ==
  [c \in {s[i] : i \in DOMAIN s} |->
     Cardinality({i \in DOMAIN s : s[i] = c})]
\* The sign of log2(p + 1e-12) for p = count / len.  1 + 1e-12 is a double
\* above 1, so the logarithm of p = 1 is positive (1.44e-12); count / len +
\* 1e-12 stays below 1 whenever count < len.
Log2Sign(count, len) == IF count >= len THEN 1 ELSE -1
\* entropy(s) = -sum(p * log2(p + 1e-12) for p in probs), held as its sign:
\* 1 above zero, 0 zero, -1 below zero.  Each product has the sign of its
\* logarithm; a positive logarithm is that of p = 1, the one term of its
\* sum; the sum over no symbol is 0.
entropy(s) ==
  LET counts == Counter(s)
      signs == {Log2Sign(counts[c], Len(s)) : c \in DOMAIN counts}
  IN IF signs = {} THEN 0
     ELSE IF signs = {-1} THEN 1
     ELSE -1

\* threat_label of demo_dash5.py
ThreatLabel(anomaly) ==
  IF anomaly > TamperedAbove THEN "Tampered"
  ELSE IF anomaly > SuspiciousAbove THEN "Suspicious"
  ELSE "None"

\* The dict appended to st.session_state.sessions, its scoring fields: the
\* anomaly is scored on the noisy input, with the default pattern_ratio 0.5;
\* demo_dash3.py has no threat_label.
SessionRecord(secret, noisy, regen) ==
  LET scored == [secret |-> secret, noisy |-> noisy, regen |-> regen,
                 entropy |-> entropy(noisy),
                 drift |-> Drift(secret, regen),
                 anomaly |-> anomaly_score(secret, noisy, <<1, 2>>),
                 auth_success |-> (secret = regen)]
  IN IF prog = Dash5
     THEN [f \in DOMAIN scored \cup {"threat_label"} |->
             IF f = "threat_label" THEN ThreatLabel(scored.anomaly)
             ELSE scored[f]]
     ELSE scored

\* The record with its "id": session_id
WithId(record, session_id) ==
  [f \in DOMAIN record \cup {"id"} |->
     IF f = "id" THEN session_id ELSE record[f]]
\* The row written to st.session_state.history for the same session, without
\* its timestamp (and without client_id and device in demo_dash5.py).
HistoryRow(session_id, record) ==
  LET row == [session_id |-> session_id, secret |-> record.secret,
              noisy_input |-> record.noisy, regenerated |-> record.regen,
              auth_success |-> record.auth_success,
              entropy |-> record.entropy, drift |-> record.drift,
              anomaly |-> record.anomaly]
  IN IF "threat_label" \in DOMAIN record
     THEN [f \in DOMAIN row \cup {"threat_label"} |->
             IF f = "threat_label" THEN record.threat_label ELSE row[f]]
     ELSE row
\* SetLoc, were the row written at label 0 whatever the label given.
SetLoc_FirstRow(frame, label, row) ==
  IF frame = <<>> THEN <<row>> ELSE [frame EXCEPT ![1] = row]
\* frame.loc[label] = row on a frame whose rows are labelled 0, 1, ... in
\* order: the row of that label is replaced; a label the frame does not have
\* adds a row at its end.
SetLoc(frame, label, row) ==
  IF label + 1 \in DOMAIN frame THEN [frame EXCEPT ![label + 1] = row]
  ELSE Append(frame, row)

\* "Launch Session" / "Simulate Session": session_id drawn by uuid4, secret
\* by random.choices, noisy by add_noise_to_tensor (whatever its
\* noise_level), regen by the trained model, which returns as many symbols
\* as it is given.
LaunchSession(secret, noisy, regen) ==
  /\ prog \in {Dash3, Dash5}
  /\ LET session_id == Uuid(nextUuid + 1)
         record == SessionRecord(secret, noisy, regen)
     IN /\ sessions' = Append(sessions, WithId(record, session_id))
        /\ history' = SetLoc(history, Len(history),
                             HistoryRow(session_id, record))
  /\ nextUuid' = nextUuid + 1
  /\ UNCHANGED <<prog, keyStore, toServer, toClient, srv, ss, mqtt_state,
                 inject_noise, fg, display, killed, srvFailures, stopped, demo,
                 km, session_log, call, nPublished>>

\* anomaly_score called directly on two tensors of one size
AnomalyScoreCall(original, noisy, pattern_ratio) ==
  /\ prog = Model
  /\ Len(original) = Len(noisy)
  /\ call' = <<[fn |-> "anomaly_score", original |-> original,
                noisy |-> noisy, pattern_ratio |-> pattern_ratio,
                out |-> anomaly_score(original, noisy, pattern_ratio)]>>
  /\ UNCHANGED <<prog, keyStore, toServer, toClient, srv, ss, mqtt_state,
                 inject_noise, fg, display, killed, srvFailures, stopped, demo,
                 km, sessions, history, session_log, nextUuid, nPublished>>

\* random.randint(lo, hi), both ends included: the draw falls on one end.
RandInt(lo, hi, pick) == IF pick = "low" THEN lo ELSE hi
\* add_noise_to_tensor, were it to write into the tensor it is given.
add_noise_to_tensor_InPlace(tensor, vocab_size, noise_level, rand, picks) ==
  LET noisy == [i \in DOMAIN tensor |->
                  IF rand[i] > noise_level
                  THEN RandInt(0, vocab_size - 1, picks[i]) ELSE tensor[i]]
  IN [noisy |-> noisy, tensor |-> noisy]
\* add_noise_to_tensor(tensor, vocab_size, noise_level) with random.random()
\* = rand[i] at position i (rand and noise_level in thousandths): the tensor
\* returned, and the tensor given as it is after the call.  The writes go to
\* the clone.
add_noise_to_tensor(tensor, vocab_size, noise_level, rand, picks) ==
  LET noisy == [i \in DOMAIN tensor |->
                  IF rand[i] > noise_level
                  THEN RandInt(0, vocab_size - 1, picks[i]) ELSE tensor[i]]
  IN [noisy |-> noisy, tensor |-> tensor]

\* add_noise_to_tensor called directly
AddNoiseCall(tensor, vocab_size, noise_level, rand, picks) ==
  /\ prog = Model
  /\ call' = <<[fn |-> "add_noise_to_tensor", tensor |-> tensor,
                vocab_size |-> vocab_size, noise_level |-> noise_level,
                rand |-> rand,
                out |-> add_noise_to_tensor(tensor, vocab_size, noise_level,
                                            rand, picks)]>>
  /\ UNCHANGED <<prog, keyStore, toServer, toClient, srv, ss, mqtt_state,
                 inject_noise, fg, display, killed, srvFailures, stopped, demo,
                 km, sessions, history, session_log, nextUuid, nPublished>>

\* ------------------------------------------------ client_key_manager.py
\* Its save_key and load_key are those of the clients and of the server,
\* word for word; here they are called directly, in any order, on KEY_DIR.
KeyManager == "client_key_manager"
\* A session id that holds the text ".key": that of a key file copied under
\* the name of the first session's file.
DottedId == Uuid(1) \o ".key"
\* The session ids and keys the calls are made with.
KmIds == Uuids
\* The session ids keys are saved under before the sessions are listed.
ListIds == Uuids \cup {DottedId}
KmKeys == {KeyBytes(i) : i \in 0..MaxSessions}

\* What a call load_key(session_id) comes to: the key read back, or the
\* FileNotFoundError it raises when <session_id>.key does not exist.
LoadKeyOutcome(session_id) ==
  IF KeyExists(session_id)
  THEN [id |-> session_id, raised |-> "", key |-> load_key(session_id)]
  ELSE [id |-> session_id, raised |-> "FileNotFoundError", key |-> <<>>]

\* save_key(session_id, key_bytes)
KmSaveKey(session_id, key_bytes) ==
  /\ prog = KeyManager
  /\ keyStore' = save_key(keyStore, session_id, key_bytes)
  /\ km' = [km EXCEPT
              !.last = [s \in DOMAIN km.last \cup {session_id} |->
                          IF s = session_id THEN key_bytes ELSE km.last[s]],
              !.rewritten = IF session_id \in DOMAIN km.last
                            THEN @ \cup {session_id} ELSE @]
  /\ UNCHANGED <<prog, toServer, toClient, srv, ss, mqtt_state, inject_noise,
                 fg, display, killed, srvFailures, stopped, demo, sessions, history, session_log,
                 call, nextUuid, nPublished>>

\* The text of a session id around each ".key" it holds.
Pieces(session_id) ==
  IF session_id = DottedId THEN <<Uuid(1), "">> ELSE <<session_id>>
RECURSIVE Join(_)
Join(pieces) ==
  IF pieces = <<>> THEN "" ELSE pieces[1] \o Join(Tail(pieces))
\* os.listdir(KEY_DIR): one file <session_id>.key for each key saved
ListDir == {session_id \o ".key" : session_id \in DOMAIN keyStore}
\* f.replace(".key", "") for the file f of session_id: str.replace removes
\* every ".key" of the name, the one save_key added and those of the id.
ReplaceKey(session_id) == Join(Pieces(session_id) \o <<"">>)
\* list_sessions(): every file of KEY_DIR ends with ".key"; the elements of
\* the list returned, in whatever order os.listdir gives them.
list_sessions == {ReplaceKey(session_id) : session_id \in DOMAIN keyStore}

\* list_sessions()
KmListSessions ==
  /\ prog = KeyManager
  /\ call' = <<[fn |-> "list_sessions", listdir |-> ListDir,
                out |-> list_sessions]>>
  /\ UNCHANGED <<prog, keyStore, toServer, toClient, srv, ss, mqtt_state,
                 inject_noise, fg, display, killed, srvFailures, stopped, demo,
                 km, sessions, history, session_log, nextUuid, nPublished>>

\* load_key(session_id)
KmLoadKey(session_id) ==
  /\ prog = KeyManager
  /\ km' = [km EXCEPT !.loaded = <<LoadKeyOutcome(session_id)>>]
  /\ UNCHANGED <<prog, keyStore, toServer, toClient, srv, ss, mqtt_state,
                 inject_noise, fg, display, killed, srvFailures, stopped, demo,
                 sessions, history, session_log, call, nextUuid, nPublished>>

\* ------------------------------------------------------------------ init
\* The state when the script p (and, for the clients, the server) has been
\* launched and no script run has happened yet.
InitOf(p) ==
  /\ prog = p
  /\ keyStore = [s \in {} |-> <<>>]
  /\ toServer = {}
  /\ toClient = {}
  /\ srv = [payload |-> None, lines |-> <<>>, published |-> <<>>]
  /\ ss = [session_id |-> "", ephemeral_key |-> <<>>, mqtt_payload |-> None]
  /\ mqtt_state = None
  /\ inject_noise = FALSE
  /\ fg = "none"
  /\ display = [out |-> "nothing", payload |-> None, text |-> ""]
  /\ killed = {}
  /\ srvFailures = {}
  /\ stopped = {}
  /\ demo \in IF p = Demo THEN {[NoDemo EXCEPT !.ctx = b] : b \in BOOLEAN}
              ELSE {NoDemo}
  /\ km = [loaded |-> None, last |-> [s \in {} |-> <<>>], rewritten |-> {}]
  /\ sessions = <<>>
  /\ history = <<>>
  /\ session_log = <<>>
  /\ call = None
  /\ nextUuid = 0
  /\ nPublished = 0

\* run.py launches server_dash_log.py and client_dash_all_data_log.py; the
\* combined demo is launched on its own.
Init == \E p \in {"client_dash_all_data_log", Demo} : InitOf(p)

Next ==
  \/ \E button \in {"none", "send"}, message \in Messages, noise \in BOOLEAN :
       RunScript(button, message, noise)
  \/ \E noise \in BOOLEAN : StopService(noise)
  \/ FinishRun
  \/ ClientOnMessage
  \/ ServerOnMessage
  \/ OtherClientStart
  \/ ServerOnForeignMessage
  \/ ClientOnForeignMessage
  \/ \E button \in {"none", "send"}, message \in Messages :
       DemoRunScript(button, message)
  \/ DemoStartClient
  \/ DemoStartServer
  \/ DemoServerOnMessage
  \/ DemoServerOnForeignMessage
  \/ DemoClientOnForeignMessage

Spec == Init /\ [][Next]_vars

\* The user keeps the page alive: a script run that has started runs to its
\* end, and a further run with no button pressed follows when one can.
Rerun == \E noise \in BOOLEAN : RunScript("none", "AUTH_REQUEST", noise)
FairSpec == Spec /\ WF_vars(FinishRun) /\ WF_vars(Rerun)

\* The encryption and decryption functions of each script, called directly.
CodecInit == \E p \in Programs \cup {Demo} : InitOf(p)
CodecNext ==
  \E key \in {KeyBytes(i) : i \in 1..MaxSessions},
     nonce \in {Nonce(i) : i \in 1..MaxPublish},
     message \in Messages,
     how \in {"none", "first byte", "other"},
     inject_error \in BOOLEAN :
    CodecCall(key, nonce, message, how, inject_error)
CodecSpec == CodecInit /\ [][CodecNext]_vars

\* A dashboard launched, or model.py imported and anomaly_score called.
Secrets == [1..SecretLen -> Symbols]
Tensors == UNION {[1..n -> Symbols] : n \in 0..SecretLen}
\* vocab_size: len(vocab), and a smaller alphabet
VocabSizes == {2, AlphabetSize}
\* noise_level in thousandths: 0, the dashboards' 0.3 and 0.9, and 1
NoiseLevels == {0, 300, 900, 1000}
\* random.random() in thousandths: a float of [0.0, 1.0)
RandomValues == {0, 500, 999}
ScoreInit == \E p \in {Dash3, Dash5, Model} : InitOf(p)
\* One button press or one call is followed per behaviour: neither reads
\* what an earlier one left, so every result is one step from the start.
ScoreNext ==
  \/ /\ prog \in {Dash3, Dash5} /\ sessions = <<>>
     /\ \E secret \in Secrets, noisy \in Secrets, regen \in Secrets :
          LaunchSession(secret, noisy, regen)
  \/ /\ prog = Model /\ call = None
     /\ \E original \in Tensors, noisy \in Tensors,
           pattern_ratio \in PatternRatios :
          AnomalyScoreCall(original, noisy, pattern_ratio)
  \/ /\ prog = Model /\ call = None
     /\ \E tensor \in Tensors, vocab_size \in VocabSizes,
           noise_level \in NoiseLevels :
          \E rand \in [DOMAIN tensor -> RandomValues],
             picks \in [DOMAIN tensor -> {"low", "high"}] :
            AddNoiseCall(tensor, vocab_size, noise_level, rand, picks)
ScoreSpec == ScoreInit /\ [][ScoreNext]_vars

\* A dashboard launched and its button pressed again and again, the draws
\* being sequences of one symbol.
Repeats == {[i \in 1..SecretLen |-> c] : c \in {0, 1}}
HistoryInit == \E p \in {Dash3, Dash5} : InitOf(p)
HistoryNext ==
  /\ Len(sessions) < MaxRecords
  /\ \E secret \in Repeats, noisy \in Repeats, regen \in Repeats :
       LaunchSession(secret, noisy, regen)
HistorySpec == HistoryInit /\ [][HistoryNext]_vars

\* server_dash.py and client_dash_all_data.py on the broker, no one else.
LogInit == InitOf("client_dash_all_data")
LogNext ==
  \/ \E button \in {"none", "send"}, message \in Messages, noise \in BOOLEAN :
       RunScript(button, message, noise)
  \/ Len(session_log) < MaxLog /\ FinishRun
  \/ ClientOnMessage
  \/ ServerOnMessage
LogSpec == LogInit /\ [][LogNext]_vars

\* client_key_manager.py imported and its functions called.
KeyStoreInit == InitOf(KeyManager)
KeyStoreNext ==
  \/ \E session_id \in KmIds, key_bytes \in KmKeys :
       KmSaveKey(session_id, key_bytes)
  \/ \E session_id \in KmIds : KmLoadKey(session_id)
KeyStoreSpec == KeyStoreInit /\ [][KeyStoreNext]_vars

\* client_key_manager.py imported, keys saved and the sessions listed.
ListInit == InitOf(KeyManager)
ListNext ==
  \/ \E session_id \in ListIds, key_bytes \in {OtherKey, KeyBytes(1)} :
       KmSaveKey(session_id, key_bytes)
  \/ KmListSessions
ListSpec == ListInit /\ [][ListNext]_vars

\* ================================================================ claims
\* The payload of the server's last on_message call passes every check of
\* the call: long enough, a decodable session id, a key file for it, and a
\* ciphertext that opens under that key.
Authentic(payload) ==
  /\ FrameLen(payload) >= MinPayload
  /\ Decodable(payload.sid)
  /\ KeyExists(payload.sid)
  /\ Opens(load_key(payload.sid), payload.nonce, payload.ct)

\* C1: the server publishes a reply iff the payload is long enough, a key is
\* persisted for its session id and the ciphertext opens under that key; the
\* reply is one frame on the client topic: the same session id, a nonce no
\* other frame carries, and "ACK:" + plaintext sealed under the same key.
C1_ReplyIffAuthentic ==
  (prog \in Programs /\ srv.payload # None) =>
    LET payload == srv.payload[1] IN
      /\ (srv.published # <<>>) <=> Authentic(payload)
      /\ srv.published # <<>> =>
           /\ Len(srv.published) = 1
           /\ srv.published[1].topic = TOPIC_CLIENT
           /\ LET reply == srv.published[1].frame IN
                /\ reply.sid = payload.sid
                /\ SidBytes(reply.sid) = SidLen
                /\ NonceBytes(reply.nonce) = NonceLen
                /\ reply.nonce # payload.nonce
                /\ \A f \in (toServer \cup toClient) \ {reply} :
                     f.nonce # reply.nonce
                /\ reply.ct = Seal(load_key(payload.sid), reply.nonce,
                                   "ACK:" \o payload.ct.pt)
\* The server has answered the client's AUTH_REQUEST.
C1_Witness ==
  /\ srv.payload # None
  /\ srv.published # <<>>
  /\ srv.payload[1].sid \in Uuids
  /\ srv.published[1].frame.ct.pt = "ACK:AUTH_REQUEST"

\* C2: a decrypted KILL_SERVER is not acknowledged, and from then on no frame
\* of that session is decrypted or acknowledged.
C2_KillTerminatesSession ==
  /\ [](srv.payload # None =>
          (Authentic(srv.payload[1]) /\ srv.payload[1].ct.pt = KILL_SERVER
             => srv.published = <<>>))
  /\ [][\A s \in killed :
          (srv' # srv /\ srv'.payload[1].sid = s) =>
            (srv'.published = <<>> /\ Last(srv'.lines) # "sent")]_vars

\* C3: the server refuses a frame that passes every check only for a session
\* whose authenticated kill it has received; a failed tag check, a forged
\* kill among them, closes nothing.
C3_OnlyAuthenticKillTearsDown ==
  (prog \in Programs /\ srv.payload # None) =>
    ((Authentic(srv.payload[1]) /\ srv.published = <<>>)
       => srv.payload[1].sid \in killed)
\* After a forged kill (or another failed tag check) for the session, the
\* server has acknowledged a frame of the same session.
C3_Witness ==
  /\ srv.payload # None
  /\ srv.published # <<>>
  /\ [line |-> "failed: InvalidTag", sid |-> srv.payload[1].sid] \in srvFailures

\* C4: a rejected payload (too short, undecodable session id, no key file,
\* failed tag) ends the call on a failure line with nothing published, and a
\* valid frame handled after any rejections is acknowledged all the same.
C4_RejectionLeavesServerIntact ==
  (prog \in Programs /\ srv.payload # None) =>
    /\ ~Authentic(srv.payload[1]) =>
         /\ srv.published = <<>>
         /\ Last(srv.lines) \in {"too short", "failed: UnicodeDecodeError",
                                 "failed: FileNotFoundError",
                                 "failed: InvalidTag"}
    /\ (Authentic(srv.payload[1]) /\ srvFailures # {}) => srv.published # <<>>
\* After rejecting a payload of another session (or of none), the server has
\* acknowledged a valid frame.
C4_Witness ==
  /\ srv.payload # None
  /\ srv.published # <<>>
  /\ \E e \in srvFailures : e.sid # srv.payload[1].sid

\* C5: on the server and on the client, a payload shorter than 64 bytes is
\* rejected as malformed before any slice is taken or decryption attempted.
C5_LengthFloor64 ==
  /\ (srv.payload # None /\ FrameLen(srv.payload[1]) < SidLen + NonceLen + TagLen)
       => srv.lines = <<"received", "too short">>
  /\ (display.payload # None /\ FrameLen(display.payload[1]) < SidLen + NonceLen + TagLen)
       => display.out = "malformed"

\* A script run of a bus client completes (payload transfer and display).
RunCompletes == prog \in Programs /\ fg = "running" /\ fg' = "idle"

\* C6: a frame naming another session is dropped by the client: it is not
\* decrypted, nothing is raised, the session state stays as it was, and a
\* frame of the local session that arrives afterwards is processed and shown.
C6_ForeignFrameDropped ==
  /\ [](\A i \in DOMAIN demo.shown :
          demo.shown[i].payload.sid # demo.session_id
            => demo.shown[i].out = "dropped")
  /\ [][(RunCompletes /\ Truthy(mqtt_state)
           /\ mqtt_state[1].sid # ss.session_id)
          => (ss' = ss /\ display'.out # "exception")]_vars
  /\ [][(RunCompletes /\ Truthy(mqtt_state)
           /\ mqtt_state[1].sid = ss.session_id
           /\ Truthy(ss.mqtt_payload)
           /\ ss.mqtt_payload[1].sid # ss.session_id)
          => (display'.out = "decrypted" /\ display'.payload = mqtt_state)]_vars

\* C7: the run that completes after one or more frames have arrived processes
\* the frame that arrived last.
C7_LastArrivedIsProcessed ==
  [][(RunCompletes /\ Truthy(mqtt_state))
       => display'.payload = mqtt_state]_vars

\* C8: an on_message callback uses nothing of the foreground's session state
\* but the handoff buffer: mqtt_state in the bus clients, response_queue in
\* the demo.
C8_CallbackTouchesOnlyHandoff ==
  /\ [](demo.touched \subseteq {"response_queue"})
  /\ [][(prog \in Programs /\ mqtt_state' # mqtt_state /\ mqtt_state' # None)
          => (ss' = ss /\ display' = display)]_vars

\* C9: a session the client has stopped is never the client's session again,
\* and once the server has decrypted the kill of a session it accepts no
\* frame of that session and seals nothing under its key.
C9_TerminatedIsTerminal ==
  /\ [](\A s \in stopped : ss.session_id # s)
  /\ [][(srv' # srv /\ srv'.payload[1].sid \in killed)
          => (srv'.published = <<>> /\ Last(srv'.lines) # "sent")]_vars

\* The key of a session stays what it is while the session lasts, and a key
\* file, once written, is never rewritten.
KeyNeverChanges ==
  /\ [][(ss.session_id # "" /\ ss'.session_id = ss.session_id)
          => ss'.ephemeral_key = ss.ephemeral_key]_vars
  /\ [][(demo.session_id # "" /\ demo'.session_id = demo.session_id)
          => demo'.ephemeral_key = demo.ephemeral_key]_vars
  /\ [][\A s \in DOMAIN keyStore :
          s \in DOMAIN keyStore' /\ keyStore'[s] = keyStore[s]]_vars
\* The frame f in flight to the server was sealed under the key that the key
\* file of its session id holds.
SealedUnderPersistedKey(f) ==
  /\ KeyExists(f.sid)
  /\ Opens(load_key(f.sid), f.nonce, f.ct)

C11_KeyStoreRoundTrip ==
  /\ [](prog = KeyManager =>
          \A id \in KmIds :
            /\ LoadKeyOutcome(id).raised = "FileNotFoundError"
                 <=> id \notin DOMAIN km.last
            /\ id \in DOMAIN km.last =>
                 (LoadKeyOutcome(id).raised = ""
                    /\ LoadKeyOutcome(id).key = km.last[id]))
  /\ [][(prog = KeyManager /\ km'.loaded # km.loaded)
          => (keyStore' = keyStore
                /\ km'.loaded[1] = LoadKeyOutcome(km'.loaded[1].id))]_vars
\* A load has returned the key of the second save for an id, and a load of
\* an id never saved has failed before or after it.
C11_Witness ==
  /\ prog = KeyManager
  /\ km.loaded # None
  /\ km.loaded[1].raised = ""
  /\ km.loaded[1].id \in km.rewritten
  /\ km.loaded[1].key = km.last[km.loaded[1].id]
  /\ \E id \in KmIds : id \notin DOMAIN keyStore

\* The frames the client and the server have published: those in flight on
\* either topic and the server's last publish.
PublishedFrames ==
  toServer \cup toClient \cup {srv.published[i].frame : i \in DOMAIN srv.published}
\* The key of the session named sid: the key on file for the bus programs,
\* the session-state key in the combined demo.
SessionKeyIs(sid, key) ==
  IF prog = Demo
  THEN sid = demo.session_id /\ key = demo.ephemeral_key
  ELSE KeyExists(sid) /\ load_key(sid) = key

\* C12: every frame published by the client or by the server is a 36-byte
\* session id, a 12-byte nonce and a ciphertext of at least 16 bytes, at
\* least 64 bytes in all, and its session id is that of the session whose
\* key sealed it.
C12_FrameLayout ==
  \A f \in PublishedFrames :
    /\ SidBytes(f.sid) = SidLen
    /\ Decodable(f.sid)
    /\ NonceBytes(f.nonce) = NonceLen
    /\ f.ct.len >= TagLen
    /\ FrameLen(f) >= SidLen + NonceLen + TagLen
    /\ f.ct.kind = "sealed"
    /\ SessionKeyIs(f.sid, f.ct.k)
\* A frame of the client is in flight to the server while a reply of the
\* server is in flight to the client.
C12_Witness ==
  /\ \E f \in toServer : f.sid = ss.session_id /\ f.ct.pt \in Messages
  /\ \E f \in toClient : f.ct.pt = "ACK:AUTH_REQUEST"
  /\ srv.published # <<>>

\* Every frame some part of the system holds: published, being handled by
\* the server, handed to the foreground, kept in the session state, shown.
HeldFrames ==
  PublishedFrames
    \cup {srv.payload[i] : i \in DOMAIN srv.payload}
    \cup {mqtt_state[i] : i \in DOMAIN mqtt_state}
    \cup {ss.mqtt_payload[i] : i \in DOMAIN ss.mqtt_payload}
    \cup {display.payload[i] : i \in DOMAIN display.payload}
    \cup {demo.response_queue[i] : i \in DOMAIN demo.response_queue}

\* C13: among the frames sealed under one key, by the client and by the
\* server, no two different sealings carry the same nonce (two draws of
\* os.urandom being taken as different values).
C13_NonceNeverReused ==
  \A f, g \in HeldFrames :
    (f.ct.kind = "sealed" /\ g.ct.kind = "sealed"
       /\ f.ct.k = g.ct.k /\ f.ct.n = g.ct.n)
      => f.ct.pt = g.ct.pt
\* The server holds a request and has published its reply, both sealed under
\* the key of one session, while another frame of that session is in flight.
C13_Witness ==
  /\ srv.payload # None
  /\ srv.published # <<>>
  /\ srv.published[1].frame.ct.k = srv.payload[1].ct.k
  /\ srv.published[1].frame.ct.n # srv.payload[1].ct.n
  /\ \E f \in toServer : f.ct.k = srv.payload[1].ct.k

\* C14: decrypting under k the nonce and ciphertext that encrypting p under
\* k produced returns exactly p.
C14_CodecRoundTrip ==
  (call # None /\ call[1].fn = "codec"
     /\ call[1].how = "none" /\ ~call[1].inject_error)
    => (call[1].out.text = call[1].message
          /\ call[1].out.status = "Success")
\* KILL_SERVER has come back from a round trip in the combined demo.
C14_Witness ==
  /\ prog = Demo
  /\ call # None
  /\ call[1].fn = "codec"
  /\ call[1].how = "none"
  /\ call[1].message = KILL_SERVER
  /\ call[1].out.text = KILL_SERVER

\* The decoding of the last call reports a failure: by its status in
\* client_dash_all_data and in the demo, by the text returned elsewhere.
ReportsFailure ==
  IF prog \in {"client_dash_all_data", Demo}
  THEN call[1].out.status # "Success"
  ELSE call[1].out.text = "[Decryption failed]"

\* C15: when the ciphertext was altered on its way, or is altered by
\* inject_error, decoding reports a failure and returns no plaintext with a
\* success status; it returns to its caller all the same.
C15_TamperIsReported ==
  (call # None /\ call[1].fn = "codec"
     /\ (call[1].how # "none" \/ call[1].inject_error))
    => (ReportsFailure
          /\ ~(call[1].out.text = call[1].message
                 /\ call[1].out.status = "Success"))

\* anomaly_score has been called directly, and call holds the call.
Scored == call # None /\ call[1].fn = "anomaly_score"

\* C16: a differing position i counts as patterned exactly when noisy[i] is
\* (secret[i] + 1) modulo the alphabet size, 62, and the score is
\* |expected_pattern_count - patterned_count| / total_diff_count.
C16_PatternedModuloAlphabet ==
  Scored =>
    LET original == call[1].original
        noisy == call[1].noisy
        diff_positions == DiffPositions(original, noisy)
        total_diff == Cardinality(diff_positions)
        patterned ==
          Cardinality({i \in diff_positions :
                         noisy[i] = (original[i] + 1) % AlphabetSize})
        expected ==
          (total_diff * call[1].pattern_ratio[1]) \div call[1].pattern_ratio[2]
    IN call[1].out = IF total_diff = 0 THEN 0
                     ELSE Round3(Abs(expected - patterned), total_diff)

\* C17: for two sequences of one length and a pattern ratio in [0, 1],
\* anomaly_score returns a value in [0, 1].
C17_AnomalyInUnitInterval ==
  /\ Scored => (0 <= call[1].out /\ call[1].out <= 1000)
  /\ \A i \in DOMAIN sessions :
       0 <= sessions[i].anomaly /\ sessions[i].anomaly <= 1000
\* anomaly_score has returned 0.5 for two sequences that differ everywhere
\* and of which no position is patterned.
C17_Witness ==
  /\ Scored
  /\ call[1].out = 500
  /\ Cardinality(DiffPositions(call[1].original, call[1].noisy)) = SecretLen

\* C18: in every session record, the anomaly is 0.0 when the secret equals
\* the reconstructed string.
C18_NoAnomalyWhenReconstructed ==
  \A i \in DOMAIN sessions :
    sessions[i].secret = sessions[i].regen => sessions[i].anomaly = 0

\* C19: every session record carries one of the three labels, the one its
\* stored anomaly calls for: "Tampered" above 0.6, "Suspicious" above 0.3 and
\* up to 0.6, "None" otherwise.
C19_LabelOfAnomaly ==
  \A i \in DOMAIN sessions :
    /\ "threat_label" \in DOMAIN sessions[i]
    /\ sessions[i].threat_label \in {"Tampered", "Suspicious", "None"}
    /\ sessions[i].threat_label = "Tampered" <=> sessions[i].anomaly > 600
    /\ sessions[i].threat_label = "Suspicious" <=>
         (300 < sessions[i].anomaly /\ sessions[i].anomaly <= 600)

\* C20: in every session record, drift is the number of positions where
\* secret and reconstructed differ over the length of the secret, within
\* [0, 1], and auth_success holds exactly when the two are equal symbol for
\* symbol, which is exactly when drift is 0.
C20_DriftAndAuth ==
  \A i \in DOMAIN sessions :
    LET r == sessions[i]
        differing == {j \in 1..Len(r.secret) : r.secret[j] # r.regen[j]}
    IN /\ Len(r.regen) = Len(r.secret)
       /\ r.drift.num = Cardinality(differing)
       /\ r.drift.den = Len(r.secret)
       /\ 0 <= r.drift.num /\ r.drift.num <= r.drift.den
       /\ r.auth_success <=> (\A j \in 1..Len(r.secret) : r.secret[j] = r.regen[j])
       /\ r.auth_success <=> r.drift.num = 0
\* A session whose reconstruction misses one symbol has failed, and one
\* whose noisy input differs from the secret has been reconstructed.
C20_Witness ==
  \E i \in DOMAIN sessions :
    /\ sessions[i].drift.num = 1
    /\ ~sessions[i].auth_success
    /\ sessions[i].noisy = sessions[i].regen

C21_Witness ==
  /\ call # None
  /\ call[1].fn = "list_sessions"
  /\ Cardinality(DOMAIN keyStore) >= 2
  /\ call[1].out = DOMAIN keyStore

\* C22: the entropy of a non-empty symbol sequence is never below 0, and it
\* is exactly 0 for a sequence that repeats one symbol.
C22_EntropyNonNegative ==
  \A i \in DOMAIN sessions :
    LET r == sessions[i] IN
      /\ r.entropy >= 0
      /\ Cardinality({r.noisy[j] : j \in DOMAIN r.noisy}) = 1 => r.entropy = 0

\* C23: a request is answered with at most one frame, and the server never
\* receives and processes a frame that it published itself, in the bus
\* servers and in the combined demo alike: no reply follows a reply.
C23_NoReplyToOwnReply ==
  /\ [](Len(srv.published) <= 1)
  /\ [][srv' # srv =>
          \A i \in DOMAIN srv.published :
            srv'.payload # <<srv.published[i].frame>>]_vars

\* The acknowledgement frames the server can publish for the client's
\* sessions.
AckFrames ==
  {Frame(Uuid(i), ReplyNonce(Nonce(n)),
         Seal(KeyBytes(i), ReplyNonce(Nonce(n)), "ACK:" \o message)) :
     i \in 1..MaxSessions, n \in 1..MaxPublish, message \in Messages}
\* C24: for every message the client sends in a session, the first and the
\* later ones, once the server's acknowledgement is delivered to the
\* client's receive callback the response area eventually shows the
\* decryption of that acknowledgement.
C24_AckEventuallyDisplayed ==
  \A f \in AckFrames :
    (prog \in Programs /\ mqtt_state = <<f>> /\ ss.session_id = f.sid)
      ~> (display.out = "decrypted" /\ display.payload = <<f>>)

\* C25: the client's receive processing raises for no payload, be it short,
\* undecodable or failing its tag; and after a bad frame the client still
\* processes a later frame of its session.
C25_BadFrameNeverRaises ==
  /\ [](prog \in Programs => display.out # "exception")
  /\ [][(RunCompletes /\ Truthy(ss.mqtt_payload)
           /\ display.out \in {"mismatch", "exception"}
           /\ Truthy(mqtt_state)
           /\ mqtt_state[1] \in AckFrames
           /\ mqtt_state[1].sid = ss.session_id)
          => (display'.out = "decrypted" /\ display'.payload = mqtt_state)]_vars

\* C26: each session simulation appends exactly one record to the session
\* list and one row to the history and leaves every earlier record and row
\* as it was; the two keep the same length, with the same session ids in
\* the same order, after any number of simulations.
C26_RecordAndRowAppended ==
  /\ [](/\ Len(sessions) = Len(history)
        /\ \A i \in DOMAIN sessions : sessions[i].id = history[i].session_id)
  /\ [][(sessions' # sessions \/ history' # history) =>
          /\ Len(sessions') = Len(sessions) + 1
          /\ Len(history') = Len(history) + 1
          /\ SubSeq(sessions', 1, Len(sessions)) = sessions
          /\ SubSeq(history', 1, Len(history)) = history]_vars
\* Three sessions simulated, each with a session id of its own.
C26_Witness ==
  /\ Len(sessions) >= 3
  /\ Len(history) >= 3
  /\ Cardinality({sessions[i].id : i \in DOMAIN sessions}) = Len(sessions)

\* C27: in client_dash_all_data, each response frame received for the local
\* session adds exactly one entry to the session log, however often the
\* script is re-run afterwards: the run that takes up a response of the
\* local session adds one entry, and no other run adds any.
C27_OneLogEntryPerResponse ==
  [][IF /\ RunCompletes
        /\ ss'.mqtt_payload # ss.mqtt_payload
        /\ Truthy(ss'.mqtt_payload)
        /\ ss'.mqtt_payload[1].sid = ss.session_id
     THEN /\ Len(session_log') = Len(session_log) + 1
          /\ SubSeq(session_log', 1, Len(session_log)) = session_log
     ELSE session_log' = session_log]_vars

\* C28: add_noise_to_tensor leaves the sequence it is given as it was and
\* returns a sequence of the same length whose symbols all lie in
\* 0 .. vocab_size - 1 (the symbols given being of that alphabet); each
\* position holds the original symbol or one of the alphabet, and with
\* noise_level 1 the result equals the input.
C28_NoiseKeepsInputAndRange ==
  (call # None /\ call[1].fn = "add_noise_to_tensor") =>
    LET c == call[1]
        alphabet == 0..(c.vocab_size - 1)
    IN (\A i \in DOMAIN c.tensor : c.tensor[i] \in alphabet) =>
         /\ c.out.tensor = c.tensor
         /\ Len(c.out.noisy) = Len(c.tensor)
         /\ \A i \in DOMAIN c.out.noisy :
              /\ c.out.noisy[i] \in alphabet
              /\ c.out.noisy[i] = c.tensor[i] \/ c.out.noisy[i] \in alphabet
         /\ c.noise_level = 1000 => c.out.noisy = c.tensor
\* A call with noise_level 0.3 that replaced a symbol of a full-length
\* sequence of the alphabet.
C28_Witness ==
  /\ call # None
  /\ call[1].fn = "add_noise_to_tensor"
  /\ call[1].noise_level = 300
  /\ call[1].vocab_size = AlphabetSize
  /\ Len(call[1].tensor) = SecretLen
  /\ call[1].out.noisy # call[1].tensor

====
